---- MODULE Spec2Model ----
(***************************************************************************)
(* A model of alex/utils/mproc.py: the lock decorators local_lock and      *)
(* global_lock, the named-file lock file_lock / file_unlock, the id        *)
(* counter InstanceID and the multiprocessing-safe SystemLogger.           *)
(*                                                                         *)
(* Execution contexts are threads; every thread belongs to a process.     *)
(* multiprocessing.Lock / RLock exclude threads and forked processes       *)
(* alike; fcntl.lockf locks are owned by a process, so they exclude other  *)
(* processes but not the threads of the owner, and closing a descriptor    *)
(* of a file drops the process's lock on that file.                        *)
(***************************************************************************)
EXTENDS Integers, Sequences, FiniteSets, TLC

\* ------------------------------------------------------------------ bounds
\* Number of log calls (log and the methods that call it) in one behaviour
\* of the threads of one process; the other methods can be called any
\* number of times.
MaxLogs == 1
\* The same number when several processes write the same output directory.
MaxWriters == 2
\* Number of distinct session directory names session_start can compute.
MaxSessions == 2

\* Number of ids InstanceID hands out in one behaviour.
MaxIds == 2
\* Number of writes a holder makes to its lock file in one behaviour.
MaxData == 1

\* ------------------------------------------------------------- contexts
Threads == {"t1", "t2", "t3"}
Procs == {"p1", "p2"}
NoThread == "none"
NoProc == "none"

\* t1 and t2 are threads of process p1, t3 is the main thread of process p2.
Proc(t) == IF t = "t3" THEN "p2" ELSE "p1"

\* ------------------------------------------------------------ the locks
\* multiprocessing.Lock() / multiprocessing.RLock(): a lock value is its
\* owner and how many times the owner holds it.
FreeLock == [owner |-> NoThread, count |-> 0]

\* Mutant: acquire never waits (a non-blocking acquire whose result is ignored).
AcquireNeverWaits(l, t, reentrant) == TRUE

\* Mutant: the lock is not reentrant (a Lock where the code has an RLock).
AcquireNotReentrant(l, t, reentrant) == l.owner = NoThread

\* lock.acquire() returns at once when the lock is free, or when it is an
\* RLock already held by the caller; otherwise the caller blocks.
CanAcquire(l, t, reentrant) ==
    \/ l.owner = NoThread
    \/ reentrant /\ l.owner = t

\* The lock after lock.acquire() by t returned.
Acquired(l, t) == [owner |-> t, count |-> l.count + 1]

\* The lock after lock.release() by its holder.
Released(l) ==
    IF l.count <= 1 THEN FreeLock ELSE [l EXCEPT !.count = l.count - 1]

\* --------------------------------------------------------- SystemLogger
\* SystemLogger.levels
levels ==
    ("SYSTEM-LOG" :> 0) @@ ("DEBUG" :> 10) @@ ("INFO" :> 20) @@
    ("WARNING" :> 30) @@ ("CRITICAL" :> 40) @@ ("EXCEPTION" :> 50) @@
    ("ERROR" :> 60)

LevelNames == DOMAIN levels

\* self.output_dir: __init__ creates it, so it is a non-empty path.
output_dir == "out"

\* The names session_start can give a session directory (time + remote_uri).
SessionNames == {"s" \o ToString(i) : i \in 1..MaxSessions}

\* The directories that can hold a system.log.
LogDirs == {output_dir} \cup SessionNames

\* The logger configurations __init__ is called with.
Configs ==
    { [stdout |-> TRUE,  stdout_log_level |-> "DEBUG",      file_log_level |-> "WARNING"],
      [stdout |-> TRUE,  stdout_log_level |-> "SYSTEM-LOG", file_log_level |-> "ERROR"],
      [stdout |-> FALSE, stdout_log_level |-> "DEBUG",      file_log_level |-> "SYSTEM-LOG"],
      [stdout |-> TRUE,  stdout_log_level |-> "ERROR",      file_log_level |-> "INFO"] }

\* How the processes are related: only the threads of p1 run ("threads");
\* p2 is a child forked from p1 after the logger was built, sharing the
\* class lock and the shared-memory session name ("forked"); p2 is a
\* separately started program with a logger of its own on the same output
\* directory ("independent").
Topologies == {"threads", "forked", "independent"}

VARIABLES
    topology,   \* one of Topologies, fixed
    cfg,        \* stdout, stdout_log_level, file_log_level of the logger
    lock,       \* SystemLogger.lock, per logger domain
    current_session_log_dir_name, \* per logger domain, "" when no session
    session_started,              \* self._session_started, per process
    dirs,       \* directories existing under (and including) output_dir
    fileLog,    \* fileLog[d]: the writes appended to d/system.log, in order
    fileLock,   \* fileLock[d]: the process holding the lockf lock of d/system.log
    console,    \* the records printed to stdout, in order
    pc,         \* per thread: where it is in its logger call
    op,         \* per thread: the call it is in
    exc,        \* per thread: an exception is propagating
    fd,         \* per thread: the log file it has open ("" when none)
    ret,        \* per thread: the value its call is returning
    nlogs,      \* log calls issued so far
    lastSession \* per logger domain: the most recent completed session operation

\* The state of the lock decorators, of InstanceID and of the file lock.
VARIABLES
    locks,       \* the lock of local_lock (line 31) and the lock given to global_lock
    reentrant,   \* whether the lock given to global_lock is an RLock, fixed
    instance_id, \* InstanceID.instance_id.value
    stack,       \* per thread: the calls it is in, innermost last
    handle,      \* per thread: it has the file file_lock returned
    lockfOwner,  \* the process holding the lockf lock of the lock file
    lockFile     \* how many writes the lock file holds

primVars == << locks, reentrant, instance_id, stack, handle, lockfOwner, lockFile >>

loggerVars == << topology, cfg, lock, current_session_log_dir_name, session_started,
                 dirs, fileLog, fileLock, console, pc, op, exc, fd, ret, nlogs,
                 lastSession >>

vars == << primVars, topology, cfg, lock, current_session_log_dir_name, session_started,
           dirs, fileLog, fileLock, console, pc, op, exc, fd, ret, nlogs, lastSession >>

Domains == {"L1", "L2"}

\* The logger (class lock and shared session name) a thread uses.
Dom(t) == IF topology = "independent" /\ Proc(t) = "p2" THEN "L2" ELSE "L1"

\* The threads that run in the chosen topology.
Live == IF topology = "threads" THEN {"t1", "t2"} ELSE Threads

NoOp == [name |-> "none", lvl |-> "none", force |-> FALSE, wrap |-> FALSE,
         dir |-> "", id |-> 0]

NoSession == [kind |-> "none", dir |-> ""]

InitWith(topologies, configs, kinds) ==
    /\ topology \in topologies
    /\ cfg \in configs
    /\ lock = [d \in Domains |-> FreeLock]
    /\ current_session_log_dir_name = [d \in Domains |-> ""]
    /\ session_started = [p \in Procs |-> FALSE]
    /\ dirs = {output_dir}
    /\ fileLog = [d \in LogDirs |-> << >>]
    /\ fileLock = [d \in LogDirs |-> NoProc]
    /\ console = << >>
    /\ pc = [t \in Threads |-> "idle"]
    /\ op = [t \in Threads |-> NoOp]
    /\ exc = [t \in Threads |-> FALSE]
    /\ fd = [t \in Threads |-> ""]
    /\ ret = [t \in Threads |-> ""]
    /\ nlogs = 0
    /\ lastSession = [d \in Domains |-> NoSession]
    /\ locks = [l \in {"local", "shared"} |-> FreeLock]
    /\ reentrant \in kinds
    /\ instance_id = 0
    /\ stack = [t \in Threads |-> << >>]
    /\ handle = [t \in Threads |-> FALSE]
    /\ lockfOwner = NoProc
    /\ lockFile = 0

\* One process with two threads, any configuration.
Init == InitWith({"threads"}, Configs, {FALSE})

\* Two processes, forked or independent, each logging errors and warnings
\* to the files.
InitMP ==
    InitWith({"forked", "independent"},
             {c \in Configs : c.stdout /\ c.file_log_level = "WARNING"}, {FALSE})

\* ------------------------------------------------------------- helpers
\* Mutant: the comparison is strict.
PassesStrictly(lvl, threshold) == levels[lvl] > levels[threshold]

\* SystemLogger.levels[lvl] >= SystemLogger.levels[threshold]
Passes(lvl, threshold) == levels[lvl] >= levels[threshold]

\* formatter(lvl, message): the text of one record, one write of the call
\* whose time, process name, level and message it holds.
formatter(o) == [id |-> o.id, part |-> "rec"]

\* The '\n' a log call writes after the formatted record.
Newline(o) == [id |-> o.id, part |-> "nl"]

\* formatter is itself wrapped by global_lock(lock): calling it acquires
\* and releases the logger lock around the formatting.
FormatterRuns(t) == CanAcquire(lock[Dom(t)], t, TRUE)

\* Mutant: the file is written without waiting for its lock.
LockfNeverWaits(d, t) == TRUE

\* fcntl.lockf(f, LOCK_EX) returns when no other process holds the lock.
LockfGranted(d, t) == fileLock[d] \in {NoProc, Proc(t)}

\* The lockf locks after the process of t unlocked d/system.log or closed a
\* descriptor of it.
LockfDropped(d, t) ==
    IF fileLock[d] = Proc(t) THEN [fileLock EXCEPT ![d] = NoProc] ELSE fileLock

\* The methods that call self.log with a fixed level.
WrapperLevel ==
    ("info" :> "INFO") @@ ("debug" :> "DEBUG") @@ ("warning" :> "WARNING") @@
    ("critical" :> "CRITICAL") @@ ("exception" :> "EXCEPTION") @@
    ("error" :> "ERROR") @@ ("session_system_log" :> "SYSTEM-LOG")

\* How many log calls the behaviour holds.
LogBound == IF topology = "threads" THEN MaxLogs ELSE MaxWriters

\* wrapper of global_lock(lock), lines 59-61: lock.acquire(), then the
\* wrapped method starts at position `first`.
Enter(t, o, first) ==
    /\ t \in Live
    /\ pc[t] = "idle"
    /\ CanAcquire(lock[Dom(t)], t, TRUE)
    /\ lock' = [lock EXCEPT ![Dom(t)] = Acquired(@, t)]
    /\ IF o.lvl # "none"
       THEN /\ nlogs < LogBound
            /\ nlogs' = nlogs + 1
            /\ op' = [op EXCEPT ![t] = [o EXCEPT !.id = nlogs + 1]]
       ELSE /\ nlogs' = nlogs
            /\ op' = [op EXCEPT ![t] = o]
    /\ pc' = [pc EXCEPT ![t] = first]
    /\ UNCHANGED << primVars, topology, cfg, current_session_log_dir_name, session_started,
                    dirs, fileLog, fileLock, console, exc, fd, ret,
                    lastSession >>

\* ------------------------------------------------------- session methods
\* session_start(remote_uri): enter the wrapper.
session_start(t, name) ==
    Enter(t, [NoOp EXCEPT !.name = "session_start", !.dir = name], "ss_set")

\* Mutant: session_start is a no-op when a session is active.
SessionStartKeepsActive(t) ==
    /\ pc[t] = "ss_set"
    /\ IF current_session_log_dir_name[Dom(t)] # ""
       THEN /\ pc' = [pc EXCEPT ![t] = "ss_flag"]
            /\ UNCHANGED current_session_log_dir_name
       ELSE /\ current_session_log_dir_name' =
                   [current_session_log_dir_name EXCEPT ![Dom(t)] = op[t].dir]
            /\ pc' = [pc EXCEPT ![t] = "ss_mkdir"]
    /\ UNCHANGED << primVars, topology, cfg, lock, session_started, dirs, fileLog, fileLock,
                    console, op, exc, fd, ret, nlogs, lastSession >>

\* line 190: the shared name is set before the directory is made.
SessionStartSet(t) ==
    /\ pc[t] = "ss_set"
    /\ current_session_log_dir_name' =
           [current_session_log_dir_name EXCEPT ![Dom(t)] = op[t].dir]
    /\ pc' = [pc EXCEPT ![t] = "ss_mkdir"]
    /\ UNCHANGED << primVars, topology, cfg, lock, session_started, dirs, fileLog, fileLock,
                    console, op, exc, fd, ret, nlogs, lastSession >>

\* line 191: os.makedirs raises OSError when the directory exists.
SessionStartMkdir(t) ==
    /\ pc[t] = "ss_mkdir"
    /\ LET d == current_session_log_dir_name[Dom(t)] IN
       IF d \in dirs
       THEN /\ exc' = [exc EXCEPT ![t] = TRUE]
            /\ pc' = [pc EXCEPT ![t] = "release"]
            /\ dirs' = dirs
       ELSE /\ dirs' = dirs \cup {d}
            /\ pc' = [pc EXCEPT ![t] = "ss_flag"]
            /\ exc' = exc
    /\ UNCHANGED << primVars, topology, cfg, lock, current_session_log_dir_name,
                    session_started, fileLog, fileLock, console, op, fd, ret,
                    nlogs, lastSession >>

\* line 191: os.makedirs fails for another reason (permission, disk).
SessionStartMkdirFails(t) ==
    /\ pc[t] = "ss_mkdir"
    /\ exc' = [exc EXCEPT ![t] = TRUE]
    /\ pc' = [pc EXCEPT ![t] = "release"]
    /\ UNCHANGED << primVars, topology, cfg, lock, current_session_log_dir_name,
                    session_started, dirs, fileLog, fileLock, console, op, fd,
                    ret, nlogs, lastSession >>

\* line 192
SessionStartFlag(t) ==
    /\ pc[t] = "ss_flag"
    /\ session_started' = [session_started EXCEPT ![Proc(t)] = TRUE]
    /\ pc' = [pc EXCEPT ![t] = "release"]
    /\ UNCHANGED << primVars, topology, cfg, lock, current_session_log_dir_name, dirs,
                    fileLog, fileLock, console, op, exc, fd, ret, nlogs, lastSession >>

\* session_end(): enter the wrapper.
session_end(t) == Enter(t, [NoOp EXCEPT !.name = "session_end"], "se")

\* Mutant: session_end clears the flag and keeps the name.
SessionEndKeepsName(t) ==
    /\ pc[t] = "se"
    /\ session_started' = [session_started EXCEPT ![Proc(t)] = FALSE]
    /\ pc' = [pc EXCEPT ![t] = "release"]
    /\ UNCHANGED << primVars, topology, cfg, lock, current_session_log_dir_name,
                    dirs, fileLog, fileLock, console, op, exc, fd, ret, nlogs,
                    lastSession >>

\* lines 198-199
SessionEndBody(t) ==
    /\ pc[t] = "se"
    /\ current_session_log_dir_name' =
           [current_session_log_dir_name EXCEPT ![Dom(t)] = ""]
    /\ session_started' = [session_started EXCEPT ![Proc(t)] = FALSE]
    /\ pc' = [pc EXCEPT ![t] = "release"]
    /\ UNCHANGED << primVars, topology, cfg, lock, dirs, fileLog, fileLock, console, op,
                    exc, fd, ret, nlogs, lastSession >>

\* get_session_dir_name(): enter the wrapper.
get_session_dir_name(t) ==
    Enter(t, [NoOp EXCEPT !.name = "get_session_dir_name"], "gd")

\* Mutant: the flag is tested instead of the name (the variant the comment
\* at lines 215-216 proposes).
GetSessionDirNameByFlag(t) ==
    /\ pc[t] = "gd"
    /\ ret' = [ret EXCEPT ![t] =
                 IF session_started[Proc(t)]
                 THEN current_session_log_dir_name[Dom(t)]
                 ELSE output_dir]
    /\ pc' = [pc EXCEPT ![t] = "release"]
    /\ UNCHANGED << primVars, topology, cfg, lock, current_session_log_dir_name,
                    session_started, dirs, fileLog, fileLock, console, op, exc,
                    fd, nlogs, lastSession >>

\* lines 214-220
GetSessionDirNameBody(t) ==
    /\ pc[t] = "gd"
    /\ ret' = [ret EXCEPT ![t] =
                 IF current_session_log_dir_name[Dom(t)] # ""
                 THEN current_session_log_dir_name[Dom(t)]
                 ELSE output_dir]
    /\ pc' = [pc EXCEPT ![t] = "release"]
    /\ UNCHANGED << primVars, topology, cfg, lock, current_session_log_dir_name,
                    session_started, dirs, fileLog, fileLock, console, op, exc,
                    fd, nlogs, lastSession >>

\* the session_started property: enter the wrapper of _get_session_started.
get_session_started(t) ==
    Enter(t, [NoOp EXCEPT !.name = "session_started"], "gs")

\* line 203
GetSessionStartedBody(t) ==
    /\ pc[t] = "gs"
    /\ ret' = [ret EXCEPT ![t] = ToString(session_started[Proc(t)])]
    /\ pc' = [pc EXCEPT ![t] = "release"]
    /\ UNCHANGED << primVars, topology, cfg, lock, current_session_log_dir_name,
                    session_started, dirs, fileLog, fileLock, console, op, exc,
                    fd, nlogs, lastSession >>

\* ----------------------------------------------------------------- log
\* log(lvl, message, session_system_log=force): enter the wrapper.
log(t, lvl, force) ==
    Enter(t, [NoOp EXCEPT !.name = "log", !.lvl = lvl, !.force = force], "console")

\* info, debug, warning, critical, exception, error, session_system_log:
\* enter the wrapper of the method, which then calls self.log.
LogWrapper(t, w) ==
    Enter(t, [NoOp EXCEPT !.name = w, !.lvl = WrapperLevel[w],
                          !.force = (w = "session_system_log"), !.wrap = TRUE],
          "w_enter")

info(t) == LogWrapper(t, "info")

debug(t) == LogWrapper(t, "debug")

warning(t) == LogWrapper(t, "warning")

critical(t) == LogWrapper(t, "critical")

exception(t) == LogWrapper(t, "exception")

error(t) == LogWrapper(t, "error")

session_system_log(t) == LogWrapper(t, "session_system_log")

\* self.log(...) inside a wrapper method: the wrapper of log acquires the
\* lock its caller already holds.
WrapperCallsLog(t) ==
    /\ pc[t] = "w_enter"
    /\ CanAcquire(lock[Dom(t)], t, TRUE)
    /\ lock' = [lock EXCEPT ![Dom(t)] = Acquired(@, t)]
    /\ pc' = [pc EXCEPT ![t] = "console"]
    /\ UNCHANGED << primVars, topology, cfg, current_session_log_dir_name, session_started,
                    dirs, fileLog, fileLock, console, op, exc, fd, ret, nlogs, lastSession >>

\* SystemLogger.levels[lvl] and SystemLogger.levels[threshold] both find
\* their key; a name that is no key of the dictionary raises KeyError.
KnownLevels(lvl, threshold) == lvl \in DOMAIN levels /\ threshold \in DOMAIN levels

\* lines 244-249: the console. The levels are looked up only when stdout
\* is set.
LogConsole(t) ==
    /\ pc[t] = "console"
    /\ IF cfg.stdout /\ ~KnownLevels(op[t].lvl, cfg.stdout_log_level)
       THEN /\ exc' = [exc EXCEPT ![t] = TRUE]
            /\ pc' = [pc EXCEPT ![t] = "release"]
            /\ console' = console
       ELSE /\ IF cfg.stdout /\ Passes(op[t].lvl, cfg.stdout_log_level)
               THEN /\ FormatterRuns(t)
                    /\ console' = Append(console, formatter(op[t]))
               ELSE console' = console
            /\ pc' = [pc EXCEPT ![t] = "gopen"]
            /\ exc' = exc
    /\ UNCHANGED << primVars, topology, cfg, lock, current_session_log_dir_name,
                    session_started, dirs, fileLog, fileLock, op, fd, ret,
                    nlogs, lastSession >>

\* lines 251-258: the levels are looked up; then open outputDir/system.log
\* for appending and take its lockf lock, waiting while another process
\* holds it.
LogGlobalOpen(t) ==
    /\ pc[t] = "gopen"
    /\ IF output_dir # "" /\ ~KnownLevels(op[t].lvl, cfg.file_log_level)
       THEN /\ exc' = [exc EXCEPT ![t] = TRUE]
            /\ pc' = [pc EXCEPT ![t] = "release"]
            /\ UNCHANGED << fileLock, fd >>
       ELSE /\ IF output_dir # "" /\ Passes(op[t].lvl, cfg.file_log_level)
               THEN /\ LockfGranted(output_dir, t)
                    /\ fileLock' = [fileLock EXCEPT ![output_dir] = Proc(t)]
                    /\ fd' = [fd EXCEPT ![t] = output_dir]
                    /\ pc' = [pc EXCEPT ![t] = "gwrite1"]
               ELSE /\ pc' = [pc EXCEPT ![t] = "sopen"]
                    /\ UNCHANGED << fileLock, fd >>
            /\ exc' = exc
    /\ UNCHANGED << primVars, topology, cfg, lock, current_session_log_dir_name,
                    session_started, dirs, fileLog, console, op, ret,
                    nlogs, lastSession >>

\* lines 259 and 273: log_file.write(self.formatter(lvl, message)), unbuffered.
WriteRecord(t, at, next) ==
    /\ pc[t] = at
    /\ FormatterRuns(t)
    /\ fileLog' = [fileLog EXCEPT ![fd[t]] = Append(@, formatter(op[t]))]
    /\ pc' = [pc EXCEPT ![t] = next]
    /\ UNCHANGED << primVars, topology, cfg, lock, current_session_log_dir_name,
                    session_started, dirs, fileLock, console, op, exc, fd, ret,
                    nlogs, lastSession >>

\* lines 260 and 274: log_file.write('\n')
WriteNewline(t, at, next) ==
    /\ pc[t] = at
    /\ fileLog' = [fileLog EXCEPT ![fd[t]] = Append(@, Newline(op[t]))]
    /\ pc' = [pc EXCEPT ![t] = next]
    /\ UNCHANGED << primVars, topology, cfg, lock, current_session_log_dir_name,
                    session_started, dirs, fileLock, console, op, exc, fd, ret,
                    nlogs, lastSession >>

\* lines 261 and 275, and the end of the with block: unlock, close.
UnlockClose(t, at, next) ==
    /\ pc[t] = at
    /\ fileLock' = LockfDropped(fd[t], t)
    /\ fd' = [fd EXCEPT ![t] = ""]
    /\ pc' = [pc EXCEPT ![t] = next]
    /\ UNCHANGED << primVars, topology, cfg, lock, current_session_log_dir_name,
                    session_started, dirs, fileLog, console, op, exc, ret,
                    nlogs, lastSession >>

LogGlobalWrite(t) == WriteRecord(t, "gwrite1", "gwrite2")

LogGlobalNewline(t) == WriteNewline(t, "gwrite2", "gunlock")

LogGlobalUnlock(t) == UnlockClose(t, "gunlock", "sopen")

\* Mutant: the session_system_log flag is not looked at.
LogsToSessionByLevel(t) ==
    /\ current_session_log_dir_name[Dom(t)] # ""
    /\ levels[op[t].lvl] >= levels[cfg.file_log_level]

\* Mutant: the level is not looked at.
LogsToSessionAlways(t) == current_session_log_dir_name[Dom(t)] # ""

\* line 263-266: whether this call writes to the session log.
LogsToSession(t) ==
    /\ current_session_log_dir_name[Dom(t)] # ""
    /\ \/ op[t].force
       \/ Passes(op[t].lvl, cfg.file_log_level)

\* lines 263-272: open the session's system.log (an error when its
\* directory does not exist) and take its lockf lock.
LogSessionOpen(t) ==
    /\ pc[t] = "sopen"
    /\ LET d == current_session_log_dir_name[Dom(t)] IN
       IF LogsToSession(t)
       THEN IF d \notin dirs
            THEN /\ exc' = [exc EXCEPT ![t] = TRUE]
                 /\ pc' = [pc EXCEPT ![t] = "release"]
                 /\ UNCHANGED << fileLock, fd >>
            ELSE /\ LockfGranted(d, t)
                 /\ fileLock' = [fileLock EXCEPT ![d] = Proc(t)]
                 /\ fd' = [fd EXCEPT ![t] = d]
                 /\ pc' = [pc EXCEPT ![t] = "swrite1"]
                 /\ exc' = exc
       ELSE /\ pc' = [pc EXCEPT ![t] = "release"]
            /\ UNCHANGED << fileLock, fd, exc >>
    /\ UNCHANGED << primVars, topology, cfg, lock, current_session_log_dir_name,
                    session_started, dirs, fileLog, console, op, ret, nlogs, lastSession >>

LogSessionWrite(t) == WriteRecord(t, "swrite1", "swrite2")

LogSessionNewline(t) == WriteNewline(t, "swrite2", "sunlock")

LogSessionUnlock(t) == UnlockClose(t, "sunlock", "release")

\* The positions of log at which a file operation is about to run.
AtFileOperation(t) ==
    \/ pc[t] \in {"gwrite1", "gwrite2", "swrite1", "swrite2"}
    \/ pc[t] = "gopen" /\ output_dir # "" /\ Passes(op[t].lvl, cfg.file_log_level)
    \/ pc[t] = "sopen" /\ LogsToSession(t)

\* Mutant: the error of a file operation is caught and dropped, and log
\* returns.
LogFileOperationSwallowed(t) ==
    /\ AtFileOperation(t)
    /\ fileLock' = IF fd[t] = "" THEN fileLock ELSE LockfDropped(fd[t], t)
    /\ fd' = [fd EXCEPT ![t] = ""]
    /\ pc' = [pc EXCEPT ![t] = "release"]
    /\ UNCHANGED << primVars, topology, cfg, lock, current_session_log_dir_name,
                    session_started, dirs, fileLog, console, op, exc, ret, nlogs,
                    lastSession >>

\* Mutant: the file is not opened in a with block, so an error leaves it
\* open and locked.
LogFileOperationLeaks(t) ==
    /\ AtFileOperation(t)
    /\ exc' = [exc EXCEPT ![t] = TRUE]
    /\ pc' = [pc EXCEPT ![t] = "release"]
    /\ UNCHANGED << primVars, topology, cfg, lock, current_session_log_dir_name,
                    session_started, dirs, fileLog, fileLock, console, op, fd, ret,
                    nlogs, lastSession >>

\* Mutant: the destinations are isolated: an error of the global file is
\* kept for the end of the call and the session file is tried all the same.
LogFileOperationIsolated(t) ==
    /\ AtFileOperation(t)
    /\ fileLock' = IF fd[t] = "" THEN fileLock ELSE LockfDropped(fd[t], t)
    /\ fd' = [fd EXCEPT ![t] = ""]
    /\ exc' = [exc EXCEPT ![t] = TRUE]
    /\ pc' = [pc EXCEPT ![t] = IF pc[t] \in {"gopen", "gwrite1", "gwrite2"}
                               THEN "sopen" ELSE "release"]
    /\ UNCHANGED << primVars, topology, cfg, lock, current_session_log_dir_name,
                    session_started, dirs, fileLog, console, op, ret, nlogs,
                    lastSession >>

\* An open, lockf or write of log raises IOError: the with block closes the
\* file (which drops the lock) and the error leaves log.
LogFileOperationFails(t) ==
    /\ AtFileOperation(t)
    /\ fileLock' = IF fd[t] = "" THEN fileLock ELSE LockfDropped(fd[t], t)
    /\ fd' = [fd EXCEPT ![t] = ""]
    /\ exc' = [exc EXCEPT ![t] = TRUE]
    /\ pc' = [pc EXCEPT ![t] = "release"]
    /\ UNCHANGED << primVars, topology, cfg, lock, current_session_log_dir_name,
                    session_started, dirs, fileLog, console, op, ret, nlogs,
                    lastSession >>

\* ------------------------------------------------- leaving the wrappers
IsLogCall(o) == o.name = "log" \/ o.name \in DOMAIN WrapperLevel

\* What the completed call adds to the record of session operations.
SessionAfter(d, t) ==
    IF op[t].name = "session_start"
    THEN [kind |-> IF exc[t] THEN "start_failed" ELSE "start_ok", dir |-> op[t].dir]
    ELSE IF op[t].name = "session_end"
    THEN [kind |-> "end", dir |-> ""]
    ELSE lastSession[d]

\* wrapper of global_lock(lock), lines 62-65: the finally clause releases
\* the lock, and the result or the exception goes to the caller: the outer
\* method when log was called by one, else the thread's own code.
WrapperRelease(t) ==
    /\ pc[t] = "release"
    /\ lock' = [lock EXCEPT ![Dom(t)] = Released(@)]
    /\ lastSession' = [lastSession EXCEPT ![Dom(t)] = SessionAfter(Dom(t), t)]
    /\ IF op[t].wrap
       THEN /\ pc' = [pc EXCEPT ![t] = "w_release"]
            /\ UNCHANGED << op, exc, ret >>
       ELSE /\ pc' = [pc EXCEPT ![t] = "idle"]
            /\ op' = [op EXCEPT ![t] = NoOp]
            /\ exc' = [exc EXCEPT ![t] = FALSE]
            /\ ret' = [ret EXCEPT ![t] = ""]
    /\ UNCHANGED << primVars, topology, cfg, current_session_log_dir_name, session_started,
                    dirs, fileLog, fileLock, console, fd, nlogs >>

\* The same lines for the outer method (info, ..., session_system_log).
OuterWrapperRelease(t) ==
    /\ pc[t] = "w_release"
    /\ lock' = [lock EXCEPT ![Dom(t)] = Released(@)]
    /\ pc' = [pc EXCEPT ![t] = "idle"]
    /\ op' = [op EXCEPT ![t] = NoOp]
    /\ exc' = [exc EXCEPT ![t] = FALSE]
    /\ ret' = [ret EXCEPT ![t] = ""]
    /\ UNCHANGED << primVars, topology, cfg, current_session_log_dir_name, session_started,
                    dirs, fileLog, fileLock, console, fd, nlogs,
                    lastSession >>

\* The levels and flags log is called with.
LogLevels == LevelNames

Next ==
    \E t \in Threads :
        \/ \E lvl \in LogLevels, force \in BOOLEAN : log(t, lvl, force)
        \/ info(t)
        \/ debug(t)
        \/ warning(t)
        \/ critical(t)
        \/ exception(t)
        \/ error(t)
        \/ session_system_log(t)
        \/ WrapperCallsLog(t)
        \/ LogConsole(t)
        \/ LogGlobalOpen(t)
        \/ LogGlobalWrite(t)
        \/ LogGlobalNewline(t)
        \/ LogGlobalUnlock(t)
        \/ LogSessionOpen(t)
        \/ LogSessionWrite(t)
        \/ LogSessionNewline(t)
        \/ LogSessionUnlock(t)
        \/ \E name \in SessionNames : session_start(t, name)
        \/ SessionStartSet(t)
        \/ SessionStartMkdir(t)
        \/ SessionStartMkdirFails(t)
        \/ SessionStartFlag(t)
        \/ session_end(t)
        \/ SessionEndBody(t)
        \/ get_session_dir_name(t)
        \/ GetSessionDirNameBody(t)
        \/ get_session_started(t)
        \/ GetSessionStartedBody(t)
        \/ WrapperRelease(t)
        \/ OuterWrapperRelease(t)

Spec == Init /\ [][Next]_vars

\* The processes of InitMP call log with this level, the error method, and
\* the session methods with the first session name.
LogLevelsMP == {"ERROR"}

NextMP ==
    \E t \in Threads :
        \/ \E lvl \in LogLevelsMP : log(t, lvl, FALSE)
        \/ error(t)
        \/ WrapperCallsLog(t)
        \/ LogConsole(t)
        \/ LogGlobalOpen(t)
        \/ LogGlobalWrite(t)
        \/ LogGlobalNewline(t)
        \/ LogGlobalUnlock(t)
        \/ LogSessionOpen(t)
        \/ LogSessionWrite(t)
        \/ LogSessionNewline(t)
        \/ LogSessionUnlock(t)
        \/ session_start(t, "s1")
        \/ SessionStartSet(t)
        \/ SessionStartMkdir(t)
        \/ SessionStartFlag(t)
        \/ session_end(t)
        \/ SessionEndBody(t)
        \/ WrapperRelease(t)
        \/ OuterWrapperRelease(t)

SpecMP == InitMP /\ [][NextMP]_vars

\* ================================== local_lock, global_lock, InstanceID
\* The functions the decorators wrap: one function decorated with
\* local_lock(), and two decorated with global_lock(lock) for the same lock:
\* InstanceID.get_instance_id and another function of the caller.
LocalFunctions == {"locked_function"}

GlobalFunctions == {"get_instance_id", "user_function"}

Wrapped == LocalFunctions \cup GlobalFunctions

\* The lock a wrapper closes over: line 31 for local_lock, the argument of
\* global_lock otherwise.
LockOf(fn) == IF fn \in LocalFunctions THEN "local" ELSE "shared"

\* multiprocessing.Lock() of line 31 is not reentrant; the lock given to
\* global_lock is what the caller made it.
IsReentrant(l) == l = "shared" /\ reentrant

\* How many times t holds lock l.
HeldBy(l, t) == IF locks[l].owner = t THEN locks[l].count ELSE 0

Top(t) == stack[t][Len(stack[t])]

AtTop(t, fn, at) == stack[t] # << >> /\ Top(t).fn = fn /\ Top(t).at = at

SetTop(t, f) == [stack EXCEPT ![t] = [@ EXCEPT ![Len(@)] = f]]

\* A call of fn by t: before is how often t holds fn's lock when it calls.
Frame(t, fn, at) ==
    [fn |-> fn, at |-> at, before |-> IF fn \in Wrapped THEN HeldBy(LockOf(fn), t) ELSE 0,
     released |-> 0, raised |-> FALSE, bodyRaised |-> FALSE, tmp |-> 0]

\* t calls a wrapped function: from its own code, or get_instance_id from
\* the body of user_function (once in one call of user_function).
CallWrapped(t, fn) ==
    /\ fn \in Wrapped
    /\ \/ stack[t] = << >>
       \/ /\ fn = "get_instance_id"
          /\ AtTop(t, "user_function", "body")
          /\ Top(t).tmp = 0
    /\ fn = "get_instance_id" => instance_id < MaxIds
    /\ stack' = [stack EXCEPT ![t] =
                   Append(IF @ = << >> THEN @ ELSE [@ EXCEPT ![Len(@)].tmp = 1],
                          Frame(t, fn, "acquire"))]
    /\ UNCHANGED << loggerVars, locks, reentrant, instance_id, handle,
                    lockfOwner, lockFile >>

\* lines 36 and 59: lock.acquire()
WrapperAcquire(t) ==
    /\ stack[t] # << >>
    /\ Top(t).fn \in Wrapped
    /\ Top(t).at = "acquire"
    /\ LET l == LockOf(Top(t).fn) IN
       /\ CanAcquire(locks[l], t, IsReentrant(l))
       /\ locks' = [locks EXCEPT ![l] = Acquired(@, t)]
    /\ stack' = SetTop(t, [Top(t) EXCEPT
                   !.at = IF @ = "acquire" /\ Top(t).fn = "get_instance_id"
                          THEN "read" ELSE "body"])
    /\ UNCHANGED << loggerVars, reentrant, instance_id, handle, lockfOwner,
                    lockFile >>

\* lines 38 and 61: user_function(*args, **kw) returns.
FunctionReturns(t) ==
    /\ stack[t] # << >>
    /\ Top(t).fn \in {"locked_function", "user_function"}
    /\ Top(t).at = "body"
    /\ stack' = SetTop(t, [Top(t) EXCEPT !.at = "finally"])
    /\ UNCHANGED << loggerVars, locks, reentrant, instance_id, handle,
                    lockfOwner, lockFile >>

\* lines 38-40 and 61-63: user_function raises; the wrapper raises it again.
FunctionRaises(t) ==
    /\ stack[t] # << >>
    /\ Top(t).fn \in {"locked_function", "user_function"}
    /\ Top(t).at = "body"
    /\ stack' = SetTop(t, [Top(t) EXCEPT !.at = "finally", !.raised = TRUE,
                                          !.bodyRaised = TRUE])
    /\ UNCHANGED << loggerVars, locks, reentrant, instance_id, handle,
                    lockfOwner, lockFile >>

\* line 128, InstanceID.instance_id.value += 1: the read.
GetInstanceIdRead(t) ==
    /\ AtTop(t, "get_instance_id", "read")
    /\ stack' = SetTop(t, [Top(t) EXCEPT !.at = "write", !.tmp = instance_id])
    /\ UNCHANGED << loggerVars, locks, reentrant, instance_id, handle,
                    lockfOwner, lockFile >>

\* line 128: the write.
GetInstanceIdWrite(t) ==
    /\ AtTop(t, "get_instance_id", "write")
    /\ instance_id' = Top(t).tmp + 1
    /\ stack' = SetTop(t, [Top(t) EXCEPT !.at = "return"])
    /\ UNCHANGED << loggerVars, locks, reentrant, handle, lockfOwner, lockFile >>

\* line 129: return InstanceID.instance_id.value
GetInstanceIdReturn(t) ==
    /\ AtTop(t, "get_instance_id", "return")
    /\ stack' = SetTop(t, [Top(t) EXCEPT !.at = "finally", !.tmp = instance_id])
    /\ UNCHANGED << loggerVars, locks, reentrant, instance_id, handle,
                    lockfOwner, lockFile >>

\* Mutant: the lock is released after the call instead of in a finally
\* clause, so not when the body raised.
ReleaseOnlyOnReturn(t) ==
    /\ stack[t] # << >>
    /\ Top(t).fn \in Wrapped
    /\ Top(t).at = "finally"
    /\ IF Top(t).raised
       THEN /\ locks' = locks
            /\ stack' = SetTop(t, [Top(t) EXCEPT !.at = "done"])
       ELSE /\ locks' = [locks EXCEPT ![LockOf(Top(t).fn)] = Released(@)]
            /\ stack' = SetTop(t, [Top(t) EXCEPT !.at = "done", !.released = @ + 1])
    /\ UNCHANGED << loggerVars, reentrant, instance_id, handle, lockfOwner,
                    lockFile >>

\* lines 41-42 and 64-65: finally: lock.release()
WrapperFinally(t) ==
    /\ stack[t] # << >>
    /\ Top(t).fn \in Wrapped
    /\ Top(t).at = "finally"
    /\ locks' = [locks EXCEPT ![LockOf(Top(t).fn)] = Released(@)]
    /\ stack' = SetTop(t, [Top(t) EXCEPT !.at = "done", !.released = @ + 1])
    /\ UNCHANGED << loggerVars, reentrant, instance_id, handle, lockfOwner,
                    lockFile >>

\* The wrapper is left: the result or the exception reaches the caller, and
\* an exception ends the caller's body.
WrapperLeaves(t) ==
    /\ stack[t] # << >>
    /\ Top(t).fn \in Wrapped
    /\ Top(t).at = "done"
    /\ LET rest == SubSeq(stack[t], 1, Len(stack[t]) - 1) IN
       stack' = [stack EXCEPT ![t] =
                   IF rest # << >> /\ Top(t).raised
                   THEN [rest EXCEPT ![Len(rest)].at = "finally",
                                     ![Len(rest)].raised = TRUE,
                                     ![Len(rest)].bodyRaised = TRUE]
                   ELSE rest]
    /\ UNCHANGED << loggerVars, locks, reentrant, instance_id, handle,
                    lockfOwner, lockFile >>

\* ================================================ file_lock, file_unlock
\* file_lock(file_name) is called by a thread that has no lock file yet.
file_lock(t) ==
    /\ stack[t] = << >>
    /\ ~handle[t]
    /\ stack' = [stack EXCEPT ![t] = << Frame(t, "file_lock", "open") >>]
    /\ UNCHANGED << loggerVars, locks, reentrant, instance_id, handle,
                    lockfOwner, lockFile >>

\* line 75: codecs.open(file_name, 'w'): the file is created or truncated.
FileLockOpen(t) ==
    /\ AtTop(t, "file_lock", "open")
    /\ lockFile' = 0
    /\ stack' = SetTop(t, [Top(t) EXCEPT !.at = "lockf"])
    /\ UNCHANGED << loggerVars, locks, reentrant, instance_id, handle, lockfOwner >>

\* lines 76-77: fcntl.lockf(lock_file, LOCK_EX) is granted when no other
\* process holds the lock; the file is returned.
FileLockLockf(t) ==
    /\ AtTop(t, "file_lock", "lockf")
    /\ lockfOwner \in {NoProc, Proc(t)}
    /\ lockfOwner' = Proc(t)
    /\ handle' = [handle EXCEPT ![t] = TRUE]
    /\ stack' = [stack EXCEPT ![t] = << >>]
    /\ UNCHANGED << loggerVars, locks, reentrant, instance_id, lockFile >>

\* The holder writes to the file it was given.
HolderWrites(t) ==
    /\ stack[t] = << >>
    /\ handle[t]
    /\ lockFile < MaxData
    /\ lockFile' = lockFile + 1
    /\ UNCHANGED << loggerVars, locks, reentrant, instance_id, stack, handle,
                    lockfOwner >>

\* file_unlock(lock_file) is called with the file file_lock returned.
file_unlock(t) ==
    /\ stack[t] = << >>
    /\ handle[t]
    /\ stack' = [stack EXCEPT ![t] = << Frame(t, "file_unlock", "unlock") >>]
    /\ UNCHANGED << loggerVars, locks, reentrant, instance_id, handle,
                    lockfOwner, lockFile >>

\* line 83: fcntl.lockf(lock_file, LOCK_UN) drops the lock of the process.
FileUnlockUnlock(t) ==
    /\ AtTop(t, "file_unlock", "unlock")
    /\ lockfOwner' = IF lockfOwner = Proc(t) THEN NoProc ELSE lockfOwner
    /\ stack' = SetTop(t, [Top(t) EXCEPT !.at = "close"])
    /\ UNCHANGED << loggerVars, locks, reentrant, instance_id, handle, lockFile >>

\* line 84: lock_file.close(); closing a descriptor of the file drops the
\* lock of the process as well.
FileUnlockClose(t) ==
    /\ AtTop(t, "file_unlock", "close")
    /\ lockfOwner' = IF lockfOwner = Proc(t) THEN NoProc ELSE lockfOwner
    /\ handle' = [handle EXCEPT ![t] = FALSE]
    /\ stack' = [stack EXCEPT ![t] = << >>]
    /\ UNCHANGED << loggerVars, locks, reentrant, instance_id, lockFile >>

\* The lock given to global_lock is a Lock (InstanceID.lock) or an RLock
\* (SystemLogger.lock); the threads of p1 and the forked process p2 share
\* the locks, the counter and the lock file.
InitLock ==
    InitWith({"forked"}, {c \in Configs : c.file_log_level = "WARNING"}, BOOLEAN)

NextLock ==
    \E t \in Threads :
        \/ \E fn \in Wrapped : CallWrapped(t, fn)
        \/ WrapperAcquire(t)
        \/ FunctionReturns(t)
        \/ FunctionRaises(t)
        \/ GetInstanceIdRead(t)
        \/ GetInstanceIdWrite(t)
        \/ GetInstanceIdReturn(t)
        \/ WrapperFinally(t)
        \/ WrapperLeaves(t)

SpecLock == InitLock /\ [][NextLock]_vars

\* The threads of p1 and the process p2 lock, write and unlock one lock file.
InitFile ==
    InitWith({"forked"}, {c \in Configs : c.file_log_level = "WARNING"}, {FALSE})

NextFile ==
    \E t \in Threads :
        \/ file_lock(t)
        \/ FileLockOpen(t)
        \/ FileLockLockf(t)
        \/ HolderWrites(t)
        \/ file_unlock(t)
        \/ FileUnlockUnlock(t)
        \/ FileUnlockClose(t)

SpecFile == InitFile /\ [][NextFile]_vars

\* ================================== two threads of one process, in order
\* The thread making the n-th log call of the behaviour: t1 is the thread
\* whose call is given the logger lock first, the later calls are t2's.
Caller(n) == IF n = 1 THEN "t1" ELSE "t2"

\* The threads t1 and t2 of p1 log to the global and the session file while
\* sessions are started, by them and by the forked process p2, and never
\* ended: a session_start after the first finds a session active.
InitOrder ==
    InitWith({"forked"},
             {c \in Configs : c.stdout /\ c.file_log_level = "WARNING"}, {FALSE})

NextOrder ==
    \/ \E lvl \in LogLevelsMP : log(Caller(nlogs + 1), lvl, FALSE)
    \/ session_system_log(Caller(nlogs + 1))
    \/ \E t \in Threads :
        \/ WrapperCallsLog(t)
        \/ LogConsole(t)
        \/ LogGlobalOpen(t)
        \/ LogGlobalWrite(t)
        \/ LogGlobalNewline(t)
        \/ LogGlobalUnlock(t)
        \/ LogSessionOpen(t)
        \/ LogSessionWrite(t)
        \/ LogSessionNewline(t)
        \/ LogSessionUnlock(t)
        \/ \E name \in SessionNames : session_start(t, name)
        \/ SessionStartSet(t)
        \/ SessionStartMkdir(t)
        \/ SessionStartFlag(t)
        \/ WrapperRelease(t)
        \/ OuterWrapperRelease(t)

SpecOrder == InitOrder /\ [][NextOrder]_vars

\* ===================================================== failing file I/O
\* One process with two threads, or two independent processes, whose file
\* operations can fail: os.makedirs in session_start, and the open, lockf
\* and writes of log. Thread t1 of p1 starts and ends the sessions.
InitFail ==
    InitWith({"threads", "independent"},
             {c \in Configs : c.stdout /\ c.file_log_level = "WARNING"}, {FALSE})

NextFail ==
    \/ session_start("t1", "s1")
    \/ session_end("t1")
    \/ \E t \in Threads :
        \/ \E lvl \in LogLevelsMP : log(t, lvl, FALSE)
        \/ error(t)
        \/ WrapperCallsLog(t)
        \/ LogConsole(t)
        \/ LogGlobalOpen(t)
        \/ LogGlobalWrite(t)
        \/ LogGlobalNewline(t)
        \/ LogGlobalUnlock(t)
        \/ LogSessionOpen(t)
        \/ LogSessionWrite(t)
        \/ LogSessionNewline(t)
        \/ LogSessionUnlock(t)
        \/ LogFileOperationFails(t)
        \/ SessionStartSet(t)
        \/ SessionStartMkdir(t)
        \/ SessionStartMkdirFails(t)
        \/ SessionStartFlag(t)
        \/ SessionEndBody(t)
        \/ WrapperRelease(t)
        \/ OuterWrapperRelease(t)

SpecFail == InitFail /\ [][NextFail]_vars

\* ============================================== unknown severity names
\* A name that is none of the seven of SystemLogger.levels.
UnknownLevel == "VERBOSE"

\* Loggers built with a threshold that is no severity name, which __init__
\* stores unchecked (lines 152-154), and one built with known names.
ConfigsLevels ==
    { [stdout |-> TRUE,  stdout_log_level |-> "DEBUG",      file_log_level |-> UnknownLevel],
      [stdout |-> TRUE,  stdout_log_level |-> UnknownLevel, file_log_level |-> "DEBUG"],
      [stdout |-> FALSE, stdout_log_level |-> UnknownLevel, file_log_level |-> "DEBUG"],
      [stdout |-> TRUE,  stdout_log_level |-> "DEBUG",      file_log_level |-> "WARNING"] }

InitLevels == InitWith({"threads"}, ConfigsLevels, {FALSE})

\* The levels log is called with: a known one and an unknown one.
LogLevelsUnknown == {"ERROR", UnknownLevel}

NextLevels ==
    \E t \in Threads :
        \/ \E lvl \in LogLevelsUnknown, force \in BOOLEAN : log(t, lvl, force)
        \/ error(t)
        \/ WrapperCallsLog(t)
        \/ LogConsole(t)
        \/ LogGlobalOpen(t)
        \/ LogGlobalWrite(t)
        \/ LogGlobalNewline(t)
        \/ LogGlobalUnlock(t)
        \/ LogSessionOpen(t)
        \/ LogSessionWrite(t)
        \/ LogSessionNewline(t)
        \/ LogSessionUnlock(t)
        \/ \E name \in SessionNames : session_start(t, name)
        \/ SessionStartSet(t)
        \/ SessionStartMkdir(t)
        \/ SessionStartFlag(t)
        \/ session_end(t)
        \/ SessionEndBody(t)
        \/ WrapperRelease(t)
        \/ OuterWrapperRelease(t)

SpecLevels == InitLevels /\ [][NextLevels]_vars

\* ======================================================== fair scheduling
\* One process with two threads, or two independent processes writing the
\* same output directory. Thread t1 of p1 starts and ends the sessions and
\* asks for the session directory, thread t2 of p1 logs through the
\* methods that call log, and the process p2 calls log itself.
InitLive ==
    InitWith({"threads", "independent"},
             {c \in Configs : c.stdout /\ c.file_log_level = "WARNING"}, {FALSE})

\* A step of the method thread t is in.
BodyStep(t) ==
    \/ WrapperCallsLog(t)
    \/ LogConsole(t)
    \/ LogGlobalOpen(t)
    \/ LogGlobalWrite(t)
    \/ LogGlobalNewline(t)
    \/ LogGlobalUnlock(t)
    \/ LogSessionOpen(t)
    \/ LogSessionWrite(t)
    \/ LogSessionNewline(t)
    \/ LogSessionUnlock(t)
    \/ SessionStartSet(t)
    \/ SessionStartMkdir(t)
    \/ SessionStartFlag(t)
    \/ SessionEndBody(t)
    \/ GetSessionDirNameBody(t)
    \/ WrapperRelease(t)
    \/ OuterWrapperRelease(t)

NextLive ==
    \/ session_start("t1", "s1")
    \/ session_end("t1")
    \/ get_session_dir_name("t1")
    \/ error("t2")
    \/ session_system_log("t2")
    \/ \E lvl \in LogLevelsMP : log("t3", lvl, FALSE)
    \/ \E t \in Threads : BodyStep(t)

\* A thread that can take a step of its method eventually takes it, and a
\* thread waiting for a lockf lock that is free again and again is
\* eventually given it. No file operation fails.
FairLive ==
    \A t \in Threads :
        /\ WF_vars(BodyStep(t))
        /\ SF_vars(LogGlobalOpen(t) \/ LogSessionOpen(t))

SpecLive == InitLive /\ [][NextLive]_vars /\ FairLive

\* ================================================================ claims
\* The writes of call id in the sequence f.
WritesOf(f, id) == {i \in DOMAIN f : f[i].id = id}

\* f holds the record of call id followed by its newline, and no other
\* write of that call.
HasRecord(f, id) ==
    \E i \in DOMAIN f :
        /\ i + 1 \in DOMAIN f
        /\ f[i] = [id |-> id, part |-> "rec"]
        /\ f[i + 1] = [id |-> id, part |-> "nl"]
        /\ WritesOf(f, id) = {i, i + 1}

\* A thread is at the end of the body of log: every write of the call is made.
LogReturns(t) == pc[t] = "release" /\ op[t].lvl # "none"

AllIdle == \A t \in Threads : pc[t] = "idle"

\* C1: the callers' records in the shared system.log are contiguous: the
\* writes of one call (its record, then its newline) are adjacent, no write
\* of another call between them; and once the N calls have returned, the
\* file holds exactly N records, one of each call.
C1_RecordsContiguous ==
    LET f == fileLog[output_dir] IN
    /\ \A i, j \in DOMAIN f :
           (i < j /\ f[i].id = f[j].id) =>
               (j = i + 1 /\ f[i].part = "rec" /\ f[j].part = "nl")
    /\ AllIdle =>
           /\ Cardinality({i \in DOMAIN f : f[i].part = "rec"}) = nlogs
           /\ \A id \in 1..nlogs : HasRecord(f, id)

\* C1 witness: in the independent processes, p2 waits for the file lock
\* while a thread of p1 is between its two writes.
C1_Witness ==
    /\ topology = "independent"
    /\ pc["t3"] = "gopen"
    /\ fileLock[output_dir] = "p1"
    /\ \E t \in {"t1", "t2"} : pc[t] = "gwrite2"
    /\ Len(fileLog[output_dir]) = 1

\* C2: at the end of a log call without error, the console holds the
\* call's record exactly when the console is enabled and the level reaches
\* the console threshold, and the global system.log holds it exactly when
\* an output directory is set and the level reaches the file threshold,
\* whatever the session state and the force flag.
C2_ConsoleAndGlobalByThreshold ==
    \A t \in Threads :
        (LogReturns(t) /\ ~exc[t]) =>
            /\ IF cfg.stdout /\ levels[op[t].lvl] >= levels[cfg.stdout_log_level]
               THEN Cardinality(WritesOf(console, op[t].id)) = 1
               ELSE WritesOf(console, op[t].id) = {}
            /\ IF output_dir # "" /\ levels[op[t].lvl] >= levels[cfg.file_log_level]
               THEN HasRecord(fileLog[output_dir], op[t].id)
               ELSE WritesOf(fileLog[output_dir], op[t].id) = {}

\* C2 witness: stdout=DEBUG, file=WARNING, a session is active, and info
\* has written the console only.
C2_Witness ==
    \E t \in Threads :
        /\ LogReturns(t) /\ ~exc[t]
        /\ op[t].name = "info"
        /\ cfg.stdout_log_level = "DEBUG" /\ cfg.file_log_level = "WARNING"
        /\ current_session_log_dir_name[Dom(t)] # ""
        /\ Len(console) = 1
        /\ fileLog[output_dir] = << >>

\* C3: a log call whose level reaches the file threshold, made when the
\* most recent session operation is a successful session_start, appends one
\* record to the global system.log and one to the session's system.log;
\* made when it is a session_end, it appends a record to the global
\* system.log and writes to no session file.
C3_SessionFileFollowsSession ==
    \A t \in Threads :
        (LogReturns(t) /\ levels[op[t].lvl] >= levels[cfg.file_log_level]) =>
            LET last == lastSession[Dom(t)] IN
            /\ last.kind = "start_ok" =>
                   /\ ~exc[t]
                   /\ HasRecord(fileLog[output_dir], op[t].id)
                   /\ HasRecord(fileLog[last.dir], op[t].id)
                   /\ \A s \in SessionNames \ {last.dir} :
                          WritesOf(fileLog[s], op[t].id) = {}
            /\ last.kind = "end" =>
                   /\ ~exc[t]
                   /\ HasRecord(fileLog[output_dir], op[t].id)
                   /\ \A s \in SessionNames : WritesOf(fileLog[s], op[t].id) = {}

\* C3 witness: a session was started and ended, and the log call has
\* written the global file.
C3_Witness ==
    \E t \in Threads :
        /\ LogReturns(t)
        /\ levels[op[t].lvl] >= levels[cfg.file_log_level]
        /\ lastSession[Dom(t)].kind = "end"
        /\ dirs # {output_dir}
        /\ Len(fileLog[output_dir]) = 2

\* C4: get_session_dir_name returns the output directory when no
\* session_start was called yet or the most recent session operation is
\* session_end, and the directory the most recent session_start set when
\* no session_end followed it.
C4_SessionDirName ==
    \A t \in Threads :
        (pc[t] = "release" /\ op[t].name = "get_session_dir_name") =>
            LET last == lastSession[Dom(t)] IN
            ret[t] = IF last.kind \in {"none", "end"} THEN output_dir ELSE last.dir

\* C4 witness: two sessions were started and the second is returned while
\* the other thread waits for the lock.
C4_Witness ==
    \E t \in Threads :
        /\ pc[t] = "release" /\ op[t].name = "get_session_dir_name"
        /\ ret[t] \in SessionNames
        /\ Cardinality(dirs) = 3

\* C5: when the most recent session operation is a successful
\* session_start, session_system_log appends its record to that session's
\* system.log, whatever the file threshold.
C5_SessionSystemLogReachesSession ==
    \A t \in Threads :
        (pc[t] = "release" /\ op[t].name = "session_system_log"
            /\ lastSession[Dom(t)].kind = "start_ok") =>
            /\ ~exc[t]
            /\ HasRecord(fileLog[lastSession[Dom(t)].dir], op[t].id)

\* C5 witness: the file threshold is ERROR and the record is in the
\* session file.
C5_Witness ==
    \E t \in Threads :
        /\ pc[t] = "release" /\ op[t].name = "session_system_log"
        /\ cfg.file_log_level = "ERROR"
        /\ lastSession[Dom(t)].kind = "start_ok"
        /\ Len(fileLog[lastSession[Dom(t)].dir]) = 2

\* C6: session_system_log writes nothing to the console and nothing to the
\* global system.log.
C6_SessionSystemLogOnlySession ==
    \A t \in Threads :
        (pc[t] = "release" /\ op[t].name = "session_system_log") =>
            /\ WritesOf(console, op[t].id) = {}
            /\ WritesOf(fileLog[output_dir], op[t].id) = {}

\* C7: a log call without the force flag whose level is below the console
\* threshold and below the file threshold writes to no destination,
\* whether or not a session is active.
C7_BelowBothWritesNothing ==
    \A t \in Threads :
        (/\ pc[t] # "idle"
         /\ op[t].lvl # "none"
         /\ ~op[t].force
         /\ levels[op[t].lvl] < levels[cfg.stdout_log_level]
         /\ levels[op[t].lvl] < levels[cfg.file_log_level]) =>
            /\ ~exc[t]
            /\ WritesOf(console, op[t].id) = {}
            /\ \A d \in LogDirs : WritesOf(fileLog[d], op[t].id) = {}

\* C7 witness: debug, below both thresholds, has ended while a session is
\* active.
C7_Witness ==
    \E t \in Threads :
        /\ pc[t] = "w_release" /\ op[t].name = "debug"
        /\ levels["DEBUG"] < levels[cfg.stdout_log_level]
        /\ levels["DEBUG"] < levels[cfg.file_log_level]
        /\ lastSession[Dom(t)].kind = "start_ok"

\* t is inside a body guarded by lock l: its wrapper has acquired l and
\* not yet released it.
InBody(t, l) ==
    \E i \in DOMAIN stack[t] :
        /\ stack[t][i].fn \in Wrapped
        /\ LockOf(stack[t][i].fn) = l
        /\ stack[t][i].at \in {"body", "read", "write", "return", "finally"}

\* C8: for the lock of local_lock and for the lock given to global_lock,
\* at most one thread (of any process) is inside a body guarded by the
\* lock, also when the bodies are those of different functions.
C8_OneInsideBody ==
    \A l \in DOMAIN locks : Cardinality({t \in Threads : InBody(t, l)}) <= 1

\* C8 witness: a thread of p1 is in the body of user_function while the
\* process p2 waits in the wrapper of get_instance_id for the same lock.
C8_Witness ==
    /\ AtTop("t1", "user_function", "body")
    /\ AtTop("t3", "get_instance_id", "acquire")
    /\ instance_id = 1

\* C9: when a wrapped call is left, its wrapper has released the lock
\* exactly once, the caller gets the exception exactly when the body raised
\* one, and the caller holds the lock as many times as before the call; a
\* lock is held only by a thread inside a body it guards.
C9_ReleasedOnEveryExit ==
    /\ \A t \in Threads :
           (stack[t] # << >> /\ Top(t).fn \in Wrapped /\ Top(t).at = "done") =>
               /\ Top(t).released = 1
               /\ Top(t).raised = Top(t).bodyRaised
               /\ HeldBy(LockOf(Top(t).fn), t) = Top(t).before
    /\ \A l \in DOMAIN locks :
           locks[l].owner # NoThread => InBody(locks[l].owner, l)

\* C9 witness: user_function raised after its nested call of
\* get_instance_id, its wrapper has released the lock, and another thread
\* waits for the lock.
C9_Witness ==
    \E t, u \in Threads :
        /\ AtTop(t, "user_function", "done")
        /\ Top(t).raised
        /\ Top(t).tmp = 1
        /\ stack[u] # << >> /\ Top(u).at = "acquire"
        /\ LockOf(Top(u).fn) = "shared"

\* t has the lock file: file_lock returned it and t has not called
\* file_unlock with it.
Holding(t) == handle[t] /\ stack[t] = << >>

\* C10: between the return of file_lock in one process and the matching
\* file_unlock, no other process has returned from file_lock on the path.
C10_FileLockExcludesProcesses ==
    \A t, u \in Threads : (Holding(t) /\ Holding(u)) => Proc(t) = Proc(u)

\* C13: the log calls of the threads of one process are numbered in the
\* order in which they were given the logger lock; in every system.log the
\* writes of a call that got the lock earlier all come before the writes of
\* a call that got it later.
C13_SameProcessOrdered ==
    \A d \in LogDirs :
        \A i, j \in DOMAIN fileLog[d] :
            i < j => fileLog[d][i].id <= fileLog[d][j].id

\* C13 witness: t1's call got the lock first, t2's call second, both wrote
\* the global and the same session file, and t2's call is at its end.
C13_Witness ==
    /\ pc["t2"] = "release" /\ op["t2"].id = 2
    /\ HasRecord(fileLog[output_dir], 1) /\ HasRecord(fileLog[output_dir], 2)
    /\ \E s \in SessionNames : HasRecord(fileLog[s], 1) /\ HasRecord(fileLog[s], 2)

\* C18: when the most recent session operation is a successful
\* session_start, also one called while another session was active, the
\* current session directory is the directory that call created, and a log
\* call writes its session record to that directory's system.log and to the
\* system.log of no other session.
C18_StartOverwrites ==
    \A t \in Threads :
        LET last == lastSession[Dom(t)] IN
        last.kind = "start_ok" =>
            /\ lock[Dom(t)].owner = NoThread =>
                   /\ current_session_log_dir_name[Dom(t)] = last.dir
                   /\ last.dir \in dirs
            /\ (pc[t] # "idle" /\ op[t].lvl # "none") =>
                   \A s \in SessionNames \ {last.dir} :
                       WritesOf(fileLog[s], op[t].id) = {}
            /\ (LogReturns(t)
                    /\ (op[t].force \/ levels[op[t].lvl] >= levels[cfg.file_log_level])) =>
                   HasRecord(fileLog[last.dir], op[t].id)

\* C18 witness: the first call wrote to the first session's file; a second
\* session was started while the first was active, and the second call
\* wrote to the second session's file only.
C18_Witness ==
    \E s1, s2 \in SessionNames :
        /\ s1 # s2
        /\ HasRecord(fileLog[s1], 1)
        /\ lastSession["L1"] = [kind |-> "start_ok", dir |-> s2]
        /\ LogReturns("t2") /\ op["t2"].id = 2
        /\ HasRecord(fileLog[s2], 2)
        /\ WritesOf(fileLog[s1], 2) = {}

\* The call of t is at its end: what it returns or raises is decided.
CallEnds(t) == pc[t] \in {"release", "w_release"}

\* The log call of t is due to write the global system.log.
GlobalDue(t) ==
    output_dir # "" /\ levels[op[t].lvl] >= levels[cfg.file_log_level]

\* The log call of t is due to write the current session's system.log.
SessionDue(t) ==
    /\ current_session_log_dir_name[Dom(t)] # ""
    /\ op[t].force \/ levels[op[t].lvl] >= levels[cfg.file_log_level]

\* C11: an error in session_start or log goes straight to the caller: once
\* raised, no further step of the method runs; a log call that ends without
\* an error has written every file it was due to write, and a session_start
\* that ends without an error has created its directory, so a failed file
\* operation never ends as a normal return; a session_start whose directory
\* the previous session_start created ends with the error.
C11_ErrorsReachCaller ==
    \A t \in Threads :
        /\ exc[t] => CallEnds(t)
        /\ (CallEnds(t) /\ op[t].lvl # "none" /\ ~exc[t]) =>
               /\ GlobalDue(t) => HasRecord(fileLog[output_dir], op[t].id)
               /\ SessionDue(t) =>
                      HasRecord(fileLog[current_session_log_dir_name[Dom(t)]], op[t].id)
        /\ (CallEnds(t) /\ op[t].name = "session_start" /\ ~exc[t]) =>
               /\ op[t].dir \in dirs
               /\ current_session_log_dir_name[Dom(t)] = op[t].dir
               /\ session_started[Proc(t)]
        /\ (CallEnds(t) /\ op[t].name = "session_start"
                /\ lastSession[Dom(t)] = [kind |-> "start_ok", dir |-> op[t].dir]) =>
               exc[t]

\* C11 witness: the write of the newline to the global file failed after
\* the record was written, and the error is on its way out of the wrapper
\* method that called log.
C11_Witness ==
    \E t \in Threads :
        /\ pc[t] = "w_release" /\ exc[t]
        /\ Cardinality(WritesOf(fileLog[output_dir], op[t].id)) = 1

\* C12: a thread has a log file open only between the open and the end of
\* the with block of a log call, and the lockf lock of a system.log is held
\* only by a process one of whose threads has that file open there; so when
\* log has returned or raised, its caller has no open handle and no file
\* lock.
C12_HandlesScopedToCall ==
    /\ \A t \in Threads :
           fd[t] # "" =>
               pc[t] \in {"gwrite1", "gwrite2", "gunlock", "swrite1", "swrite2", "sunlock"}
    /\ \A d \in LogDirs :
           fileLock[d] # NoProc =>
               \E t \in Threads : fd[t] = d /\ Proc(t) = fileLock[d]

\* C12 witness: log raised after it had locked the session file and written
\* the record to it; the file is closed and its lock is free.
C12_Witness ==
    \E t \in Threads :
        /\ pc[t] = "release" /\ exc[t] /\ op[t].lvl # "none"
        /\ HasRecord(fileLog[output_dir], op[t].id)
        /\ \E s \in SessionNames :
               /\ Cardinality(WritesOf(fileLog[s], op[t].id)) = 1
               /\ fileLock[s] = NoProc
        /\ fd[t] = ""

\* C19: log writes the console, then the global file, then the session
\* file: while it is at the global file the console record, when due, is
\* written and no session file is; and when the call ends with an error and
\* without its complete record in the global file it was due to write, no
\* session file holds a write of the call and the console record remains.
C19_SequentialNoIsolation ==
    \A t \in Threads :
        LET consoleDue ==
                cfg.stdout /\ levels[op[t].lvl] >= levels[cfg.stdout_log_level]
            atSession == \E s \in SessionNames : WritesOf(fileLog[s], op[t].id) # {}
        IN
        op[t].lvl # "none" =>
            /\ pc[t] \in {"w_enter", "console", "gopen", "gwrite1", "gwrite2", "gunlock"} =>
                   ~atSession
            /\ pc[t] \in {"gopen", "gwrite1", "gwrite2", "gunlock"} =>
                   (consoleDue <=> WritesOf(console, op[t].id) # {})
            /\ (CallEnds(t) /\ exc[t] /\ GlobalDue(t)
                    /\ ~HasRecord(fileLog[output_dir], op[t].id)) =>
                   /\ ~atSession
                   /\ consoleDue => Cardinality(WritesOf(console, op[t].id)) = 1

\* C19 witness: a session is active, the console record of an error call is
\* written, the write of the record to the global file failed, and the
\* session file is untouched.
C19_Witness ==
    \E t \in Threads :
        /\ pc[t] = "release" /\ exc[t] /\ op[t].lvl = "ERROR"
        /\ lastSession[Dom(t)].kind = "start_ok"
        /\ WritesOf(console, op[t].id) # {}
        /\ WritesOf(fileLog[output_dir], op[t].id) = {}
        /\ fileLog[lastSession[Dom(t)].dir] = << >>

\* C14: a log call whose level, or whose logger's console or file
\* threshold, is none of the seven severity names ends with an error, and
\* has written no destination.
C14_UnknownNameIsError ==
    \A t \in Threads :
        (/\ pc[t] = "release"
         /\ op[t].lvl # "none"
         /\ \/ op[t].lvl \notin LevelNames
            \/ cfg.stdout_log_level \notin LevelNames
            \/ cfg.file_log_level \notin LevelNames) =>
            /\ exc[t]
            /\ WritesOf(console, op[t].id) = {}
            /\ \A d \in LogDirs : WritesOf(fileLog[d], op[t].id) = {}

\* No thread is inside a method of the logger of domain d: the state is one
\* a caller can observe between two operations.
BetweenOperations(d) == lock[d].owner = NoThread

\* C15: between logger operations, in every process sharing the logger,
\* the flag _session_started is true exactly when the shared current
\* session directory name is non-empty.
C15_FlagEquivalentToName ==
    \A t \in Live :
        BetweenOperations(Dom(t)) =>
            (session_started[Proc(t)] <=> current_session_log_dir_name[Dom(t)] # "")

\* C16: between logger operations, a non-empty current session directory
\* name is the name of a directory session_start created, also after a
\* session_start whose os.makedirs failed.
C16_NameIsCreatedDir ==
    \A d \in Domains :
        (BetweenOperations(d) /\ current_session_log_dir_name[d] # "") =>
            current_session_log_dir_name[d] \in dirs \ {output_dir}

\* C20: while a thread of one process holds the lock file, no step of a
\* file_lock call of another process, which has not been given the lock,
\* changes the contents of the file.
C20_WaiterKeepsContents ==
    [][\A t \in Threads :
           (/\ \E u \in Threads : Holding(u) /\ Proc(u) # Proc(t)
            /\ stack[t] # << >>
            /\ Top(t).fn = "file_lock"
            /\ stack'[t] # stack[t]) =>
               lockFile' = lockFile]_vars

\* C17: under fair scheduling and fair lock granting, and with no failing
\* file operation, every call of a logger method that has been given the
\* logger lock returns (and with it frees the logger lock for the callers
\* waiting for it), although the methods acquire the lock again in log and
\* formatter and log waits for the lockf locks while holding it.
C17_EveryCallReturns ==
    \A t \in Threads : (pc[t] # "idle") ~> (pc[t] = "idle")

\* C17 witness: in p1 the error method has called log, which holds the
\* logger lock a second time and the lockf lock of the global file, while
\* p2, holding the lock of its own logger, waits for the lockf lock.
C17_Witness ==
    /\ topology = "independent"
    /\ op["t2"].name = "error"
    /\ pc["t2"] = "gwrite1"
    /\ lock["L1"] = [owner |-> "t2", count |-> 2]
    /\ fileLock[output_dir] = "p1"
    /\ pc["t3"] = "gopen"
    /\ lock["L2"].owner = "t3"

====
